---- MODULE Spec2Model ----
(***************************************************************************)
(* Shape-level model of the TokenLearner mini-ViT notebook.                *)
(*                                                                         *)
(* create_vit_classifier wires Keras layers with the functional API: every *)
(* layer call infers the static shape of its output while the model is     *)
(* being built, and raises at that moment when the shapes do not fit.  The  *)
(* model follows the function statement by statement.  A tensor is         *)
(* represented by its static shape without the batch axis, a tuple of      *)
(* naturals; a layer is an operator from shapes to shapes that yields      *)
(* ShapeError where the layer raises.                                      *)
(*                                                                         *)
(* Spec builds the model for a range of hyperparameters and counts whole   *)
(* training steps; SpecLoop and SpecPositions enter the build at the layer *)
(* loop and at position_embedding with any token sequence.  SpecReduce     *)
(* runs token_learner on tensors of given values, SpecRun follows          *)
(* run_experiment statement by statement for the notebook's model, and     *)
(* SpecCalls calls a built model in training and in inference mode.        *)
(***************************************************************************)
EXTENDS Integers, Sequences, FiniteSets, TLC

\* ------------------------------------------------------------------ bounds
MaxImage  == 6
MaxPatch  == 3
MaxLayers == 4
MaxTokens == 3
MaxDim    == 2
MaxSeq    == 10
MaxSteps  == 2
MaxEpochs == 2
MaxAcc    == 2
MaxCalls  == 2
MaxBatch  == 2
MaxLogit  == 3
Precision == 1000
MaxTemp   == 3
MaxInputs == 3
AlphaUnit == 10
\* gradients in the list get_gradients works on
MaxGrads  == 2
\* length of every axis of a gradient
MaxAxis   == 2
\* callback events a TimeHistory receives
MaxEvents == 5
\* the latest reading of time()
MaxClock  == 2

\* ------------------------------------------------------ program constants
INPUT_SIZE     == 32
INPUT_CHANNELS == 3
RESIZE_MARGIN  == 20
NUM_CLASSES    == 10
KERNEL_SIZE    == 3
EPOCHS         == 20

VARIABLES
    cfg,        \* the hyperparameters and the arguments of create_vit_classifier
    pc,         \* the statement of create_vit_classifier / run_experiment reached
    shape,      \* static shape (batch axis left out) of the tensor just produced
    i,          \* the layer loop's index
    trace,      \* the layers applied so far, in order
    blocks,     \* per transformer block: its index, input and output shape
    reducedAt,  \* the loop indices at which token_learner was applied
    grids,      \* number of sequence-to-grid reshapes performed
    flow,       \* which tensors the last token_learner multiplied
    err,        \* the call that raised (a layer while building, a callback), or "none"
    steps,      \* training steps executed by model.fit
    run,        \* run_experiment: epoch, position in the step, parameters, checkpoint
    tensors,    \* token_learner's values: grid, attention maps, product, output
    calls,      \* the calls of the built model: input, training flag, output
    probs,      \* the softmax layer's values: logits and output of a batch
    distiller,  \* the Distiller: teacher and student weights, the step's loss
    classifier, \* the contrastive notebook's encoder and classifier weights
    grads,      \* GCRMSprop.get_gradients: the gradients given and returned
    timer       \* the TimeHistory callback: times, epoch_time_start, the clock

\* The state of the classifier's output values and of the other notebooks.
others == <<probs, distiller, classifier, grads, timer>>

vars == <<cfg, pc, shape, i, trace, blocks, reducedAt, grids, flow, err, steps,
          run, tensors, calls, probs, distiller, classifier, grads, timer>>

\* --------------------------------------------------------- hyperparameters
IMAGE_SIZE     == cfg.IMAGE_SIZE
PATCH_SIZE     == cfg.PATCH_SIZE
PROJECTION_DIM == cfg.PROJECTION_DIM
NUM_LAYERS     == cfg.NUM_LAYERS
NUM_TOKENS     == cfg.NUM_TOKENS
use_token_learner == cfg.use_token_learner

INPUT_SHAPE == <<INPUT_SIZE, INPUT_SIZE, INPUT_CHANNELS>>

NUM_PATCHES == (IMAGE_SIZE \div PATCH_SIZE) * (IMAGE_SIZE \div PATCH_SIZE)

MLP_UNITS == <<PROJECTION_DIM * 2, PROJECTION_DIM>>

\* ------------------------------------------------------------ shape algebra
ShapeError == <<-1>>

IsShape(s) == s # ShapeError

Max(a, b) == IF a >= b THEN a ELSE b

RECURSIVE Product(_)
Product(s) == IF s = <<>> THEN 1 ELSE Head(s) * Product(Tail(s))

Last(s) == s[Len(s)]

\* int(math.sqrt(n)): the largest h with h*h <= n.
IntSqrt(n) == CHOOSE h \in 0..n : h * h <= n /\ (h + 1) * (h + 1) > n

\* The k-th axis of s counted from the right, 1 when s has no such axis.
AxisFromRight(s, k) == IF k <= Len(s) THEN s[Len(s) - k + 1] ELSE 1

\* Elementwise binary operation with broadcasting (tensor + tensor, tensor * tensor,
\* layers.Add): axes are aligned from the right, and two sizes fit when they are
\* equal or one of them is 1.
Broadcast(a, b) ==
    IF ~IsShape(a) \/ ~IsShape(b) THEN ShapeError
    ELSE LET r == Max(Len(a), Len(b))
             fits == \A k \in 1..r :
                        \/ AxisFromRight(a, k) = AxisFromRight(b, k)
                        \/ AxisFromRight(a, k) = 1
                        \/ AxisFromRight(b, k) = 1
         IN IF fits
            THEN [k \in 1..r |->
                    Max(AxisFromRight(a, r - k + 1), AxisFromRight(b, r - k + 1))]
            ELSE ShapeError

\* Mutant of Reshape: the target is taken as given, the element count unchecked.
Reshape_unchecked(s, target) ==
    IF ~IsShape(s) THEN ShapeError
    ELSE [k \in 1..Len(target) |-> IF target[k] = -1 THEN 1 ELSE target[k]]

\* layers.Reshape(target): one axis of target may be -1 and is then inferred; the
\* layer raises when the number of elements would change.
Reshape(s, target) ==
    IF ~IsShape(s) THEN ShapeError
    ELSE LET unknown == {k \in 1..Len(target) : target[k] = -1}
             known   == Product([k \in 1..Len(target) |->
                                    IF target[k] = -1 THEN 1 ELSE target[k]])
         IN IF unknown = {}
            THEN IF known = Product(s) THEN target ELSE ShapeError
            ELSE IF known > 0 /\ Product(s) % known = 0
                 THEN [k \in 1..Len(target) |->
                         IF target[k] = -1 THEN Product(s) \div known ELSE target[k]]
                 ELSE ShapeError

\* layers.Permute((2, 1)) on a rank-2 tensor.
Permute21(s) == IF ~IsShape(s) THEN ShapeError ELSE <<s[2], s[1]>>

\* Mutant of Conv2DValid: the strides argument left at its default of 1.
Conv2DValid_stride1(s, filters, kernel, stride) ==
    IF ~IsShape(s) \/ Len(s) # 3 THEN ShapeError
    ELSE IF s[1] < kernel \/ s[2] < kernel THEN ShapeError
    ELSE <<s[1] - kernel + 1, s[2] - kernel + 1, filters>>

\* Mutant of Conv2DValid: padding="same", which keeps the partial patch at the edge.
Conv2DValid_same(s, filters, kernel, stride) ==
    IF ~IsShape(s) \/ Len(s) # 3 THEN ShapeError
    ELSE <<(s[1] + stride - 1) \div stride, (s[2] + stride - 1) \div stride, filters>>

\* layers.Conv2D(filters, kernel, strides, padding="VALID") on (H, W, C): each
\* spatial axis becomes (size - kernel) // stride + 1; an axis shorter than the
\* kernel leaves no output position and the layer raises (TensorFlow 2, which the
\* notebook imports together with tensorflow_addons).
Conv2DValid(s, filters, kernel, stride) ==
    IF ~IsShape(s) \/ Len(s) # 3 THEN ShapeError
    ELSE IF s[1] < kernel \/ s[2] < kernel THEN ShapeError
    ELSE <<(s[1] - kernel) \div stride + 1, (s[2] - kernel) \div stride + 1, filters>>

\* layers.Conv2D(filters, kernel, padding="same") with stride 1 on (H, W, C).
Conv2DSame(s, filters, kernel) ==
    IF ~IsShape(s) \/ Len(s) # 3 THEN ShapeError
    ELSE <<s[1], s[2], filters>>

\* layers.Dense(units): a linear map of the last axis.
Dense(s, units) ==
    IF ~IsShape(s) THEN ShapeError ELSE [s EXCEPT ![Len(s)] = units]

\* layers.LayerNormalization and layers.Dropout keep the shape.
LayerNormalization(s) == s

Dropout(s) == s

\* layers.MultiHeadAttention(...)(query, value) without output_shape: the output
\* has the query's shape; query and value must be sequences of vectors.
MultiHeadAttention(query, value) ==
    IF ~IsShape(query) \/ ~IsShape(value) THEN ShapeError
    ELSE IF Len(query) < 2 \/ Len(value) < 2 THEN ShapeError
    ELSE query

\* tf.reduce_mean(t, axis=2) on a tensor with a batch axis: removes the second
\* axis of the batch-free shape.
ReduceMeanAxis2(s) ==
    IF ~IsShape(s) \/ Len(s) < 2 THEN ShapeError
    ELSE [k \in 1..(Len(s) - 1) |-> IF k < 2 THEN s[k] ELSE s[k + 1]]

\* layers.GlobalAvgPool1D on (steps, features): averages over the steps.
GlobalAvgPool1D(s) ==
    IF ~IsShape(s) \/ Len(s) # 2 THEN ShapeError ELSE <<s[2]>>

\* ------------------------------------------------------------ the notebook
\* data_augmentation: Rescaling, Resizing, RandomCrop, RandomFlip.
data_augmentation(s) ==
    LET rescaled == s
        resized  == <<INPUT_SHAPE[1] + RESIZE_MARGIN, INPUT_SHAPE[1] + RESIZE_MARGIN,
                      rescaled[3]>>
        cropped  == <<IMAGE_SIZE, IMAGE_SIZE, resized[3]>>
    IN cropped

position_embedding(projected_patches, num_patches, projection_dim) ==
    LET encoded_positions == <<num_patches, projection_dim>>
    IN Broadcast(projected_patches, encoded_positions)

\* Mutant of mlp: the loop stops after the first hidden layer.
mlp_first_only(x, hidden_units) ==
    IF hidden_units = <<>> THEN x ELSE Dropout(Dense(x, Head(hidden_units)))

RECURSIVE mlp(_, _)
mlp(x, hidden_units) ==
    IF hidden_units = <<>> THEN x
    ELSE mlp(Dropout(Dense(x, Head(hidden_units))), Tail(hidden_units))

transformer(encoded_patches) ==
    LET x1 == LayerNormalization(encoded_patches)
        attention_output == MultiHeadAttention(x1, x1)
        x2 == Broadcast(attention_output, encoded_patches)
        x3 == LayerNormalization(x2)
        x4 == mlp(x3, MLP_UNITS)
    IN Broadcast(x4, x2)

\* Mutant of token_learner: the mean is taken over the token axis (axis=1).
token_learner_pool_tokens(inputs, number_of_tokens) ==
    [shape   |-> <<inputs[1] * inputs[2], Last(inputs)>>,
     weights |-> "normalized",
     values  |-> "original"]

\* Mutant of token_learner: the attention maps are returned without the product.
token_learner_maps_only(inputs, number_of_tokens) ==
    [shape   |-> <<number_of_tokens, inputs[1] * inputs[2]>>,
     weights |-> "normalized",
     values  |-> "none"]

\* Mutant of token_learner: the maps weight the layer-normalized tensor x.
token_learner_weighs_normalized(inputs, number_of_tokens) ==
    [shape   |-> <<number_of_tokens, Last(inputs)>>,
     weights |-> "normalized",
     values  |-> "normalized"]

\* token_learner yields the shape of its output and, for the product it pools,
\* which tensor supplied the weights and which one the weighted values.
token_learner(inputs, number_of_tokens) ==
    LET x == [shape |-> LayerNormalization(inputs), name |-> "normalized"]
        original == [shape |-> inputs, name |-> "original"]
        conv1 == Conv2DSame(x.shape, number_of_tokens, KERNEL_SIZE)
        conv2 == Conv2DSame(conv1, number_of_tokens, KERNEL_SIZE)
        conv3 == Conv2DSame(conv2, number_of_tokens, KERNEL_SIZE)
        conv4 == Conv2DSame(conv3, number_of_tokens, KERNEL_SIZE)
        attention_maps == [shape |-> Permute21(Reshape(conv4, <<-1, number_of_tokens>>)),
                           name  |-> x.name]
        num_filters == Last(inputs)
        reshaped == [shape |-> Reshape(original.shape, <<1, -1, num_filters>>),
                     name  |-> original.name]
        attended_inputs == Broadcast(attention_maps.shape \o <<1>>, reshaped.shape)
    IN [shape   |-> ReduceMeanAxis2(attended_inputs),
        weights |-> attention_maps.name,
        values  |-> reshaped.name]

\* ------------------------------------------------ token_learner's values
\* A value of a tensor is an integer; a value of an attention map counts quarters,
\* so that Scale stands for 1.0.  Rounded to quarters, the sigmoid of an integer
\* pre-activation z is 0 for z <= -2, then 1/4, 2/4, 3/4, and 1 for z >= 2.
SigmoidTable == <<0, 1, 2, 3, 4>>

Scale == SigmoidTable[Len(SigmoidTable)]

Saturation == Len(SigmoidTable) \div 2

Clamp(z) == IF z < -Saturation THEN -Saturation
            ELSE IF z > Saturation THEN Saturation ELSE z

\* Mutant of sigmoid: the fourth convolution uses gelu like the first three
\* (gelu in quarters: 0, -1/4, 0, 3/4, 8/4).
sigmoid_gelu(z) == <<0, -1, 0, 3, 8>>[Clamp(z) + Saturation + 1]

\* activation="sigmoid" of the fourth convolution.
sigmoid(z) == SigmoidTable[Clamp(z) + Saturation + 1]

RECURSIVE Sum(_)
Sum(xs) == IF xs = <<>> THEN 0 ELSE Head(xs) + Sum(Tail(xs))

\* Mutant of reduce_mean: the products are summed and not divided (reduce_sum).
reduce_mean_sum(xs) == [num |-> Sum(xs), den |-> 1]

\* tf.reduce_mean over one axis: the sum of the entries over their number, kept
\* as an exact fraction.
reduce_mean(xs) == [num |-> Sum(xs), den |-> Len(xs)]

\* The output of the fourth convolution reshaped to (H*W, K) and passed through
\* the sigmoid, then Permute((2, 1)): maps[k][p].
attention_maps(z, hw, number_of_tokens) ==
    LET reshaped == [p \in 1..hw |-> [k \in 1..number_of_tokens |-> sigmoid(z[p][k])]]
    IN [k \in 1..number_of_tokens |-> [p \in 1..hw |-> reshaped[p][k]]]

\* attention_maps[..., tf.newaxis] * inputs with inputs reshaped to (1, H*W, C):
\* the broadcast product attended[k][p][d].
attended_inputs(maps, inputs) ==
    [k \in 1..Len(maps) |->
        [p \in 1..Len(inputs) |->
            [d \in 1..Len(inputs[p]) |-> maps[k][p] * inputs[p][d]]]]

\* tf.reduce_mean(attended_inputs, axis=2): the mean over the positions p.
pooled_outputs(attended, num_filters) ==
    [k \in 1..Len(attended) |->
        [d \in 1..num_filters |->
            reduce_mean([p \in 1..Len(attended[k]) |-> attended[k][p][d]])]]

\* The grids token_learner is run on: all ones, a value per position and
\* channel, values of both signs.
GridPatterns == {"ones", "index", "signed"}

GridValue(pattern, p, d) ==
    CASE pattern = "ones"   -> 1
      [] pattern = "index"  -> p + d
      [] pattern = "signed" -> IF p % 2 = 1 THEN -(p + d) ELSE d

\* The pre-activations the learned convolutions give a map: saturated low,
\* saturated high, zero, or different from position to position.
ZPatterns == <<"low", "high", "zero", "ramp">>

ZValue(pattern, p) ==
    CASE pattern = "low"  -> -Saturation - 1
      [] pattern = "high" -> Saturation + 1
      [] pattern = "zero" -> 0
      [] pattern = "ramp" -> (p % (2 * Saturation + 1)) - Saturation

\* ----------------------------------------------------------------- states
\* The hyperparameters as the notebook sets them, and its call create_vit_classifier().
NotebookConfig ==
    [IMAGE_SIZE |-> 48, PATCH_SIZE |-> 6, PROJECTION_DIM |-> 128, NUM_LAYERS |-> 4,
     NUM_TOKENS |-> 4, use_token_learner |-> TRUE]

\* The notebook's setting and every small setting of the same hyperparameters.
Configs ==
    [IMAGE_SIZE : 1..MaxImage, PATCH_SIZE : 1..MaxPatch,
     PROJECTION_DIM : 1..MaxDim, NUM_LAYERS : 1..MaxLayers,
     NUM_TOKENS : 1..MaxTokens, use_token_learner : BOOLEAN]
    \cup {NotebookConfig}

NoFlow == [weights |-> "none", values |-> "none"]

\* No checkpoint file written yet.
NoCheckpoint == [epoch |-> 0, params |-> -1, acc |-> -1]

\* run_experiment before model.fit: the model holds its initial parameters
\* (identified by the number of the optimizer update that produced them, 0 for
\* the initial ones); ModelCheckpoint starts with best = -inf for a monitored
\* accuracy, here -1 as accuracies are never negative.
NoRun ==
    [epoch |-> 0, step |-> 0, phase |-> "idle", stepTrace |-> <<>>,
     params |-> 0, loss |-> "none", nonFinite |-> FALSE,
     valAcc |-> <<>>, epochParams |-> <<>>,
     best |-> -1, checkpoint |-> NoCheckpoint, writeFailed |-> FALSE,
     tested |-> -1]

\* token_learner has not been given values.
NoTensors == [h |-> 0, c |-> 0, k |-> 0, grid |-> <<>>, z |-> <<>>,
              maps |-> <<>>, attended |-> <<>>, out |-> <<>>]

\* The softmax layer has not been given values.
NoProbs == [finite |-> TRUE, logits |-> <<>>, out |-> <<>>]

\* No step of the Distiller has run.
NoStep == [kind |-> "none", x |-> 0, y |-> 0, student_loss |-> 0,
           distillation_loss |-> 0, loss |-> 0]

\* Distiller(student, teacher) before compile: the teacher is trained, the
\* student is new; a model's weights are identified by the number of updates
\* they have had since.
NoDistiller == [alpha |-> 0, temperature |-> 1, teacher |-> 0, student |-> 0,
                wrt |-> {}, last |-> NoStep, calls |-> 0]

\* The layers of the encoder (encoder.layers) as encoder.summary() lists them.
EncoderLayers == <<"input_2", "sequential", "resnet50v2">>

\* The encoder as create_encoder() returns it and no classifier on top yet:
\* weights and statistics count the updates a layer's trainable weights and
\* its moving statistics have had, dense_2 those of the projection head, head
\* those of the two Dense layers create_classifier adds.
NoClassifier == [trainable |-> [l \in 1..Len(EncoderLayers) |-> TRUE],
                 weights |-> [l \in 1..Len(EncoderLayers) |-> 0],
                 statistics |-> [l \in 1..Len(EncoderLayers) |-> 0],
                 dense_2 |-> 0,
                 head |-> <<0, 0>>,
                 arg |-> TRUE,
                 layer |-> 0,
                 compiled |-> FALSE,
                 pretrained |-> <<>>,
                 pretraining |-> 0,
                 steps |-> 0]

\* No call of GCRMSprop.get_gradients yet: gradients is what the RMSprop
\* optimizer's own get_gradients has to return, out what the subclass returns.
NoGrads == [gradients |-> <<>>, out |-> <<>>, err |-> "none"]

\* TimeHistory() as constructed: neither attribute is set. now is the clock
\* time() reads, events the callback events so far with their times.
NoTimer == [has_times |-> FALSE, times |-> <<>>,
            has_start |-> FALSE, epoch_time_start |-> 0,
            now |-> 0, events |-> <<>>, err |-> "none"]

\* Nothing but the vision transformer's notebook is running.
OthersIdle ==
    /\ probs = NoProbs
    /\ distiller = NoDistiller
    /\ classifier = NoClassifier
    /\ grads = NoGrads
    /\ timer = NoTimer

Stage(name, layer) == [stage |-> name, layer |-> layer]

Init ==
    /\ cfg \in Configs
    /\ pc = "input"
    /\ shape = INPUT_SHAPE
    /\ i = 0
    /\ trace = <<Stage("input", -1)>>
    /\ blocks = <<>>
    /\ reducedAt = <<>>
    /\ grids = 0
    /\ flow = NoFlow
    /\ err = "none"
    /\ steps = 0
    /\ run = NoRun
    /\ tensors = NoTensors
    /\ calls = <<>>
    /\ OthersIdle

\* One layer call of the build: the output shape, or the error that ends the build.
Apply(name, layer, out, next) ==
    /\ trace' = Append(trace, Stage(name, layer))
    /\ IF IsShape(out)
       THEN /\ shape' = out
            /\ pc' = next
            /\ err' = err
       ELSE /\ shape' = shape
            /\ pc' = "error"
            /\ err' = name

Augment ==
    /\ pc = "input"
    /\ Apply("data_augmentation", -1, data_augmentation(shape), "augmented")
    /\ UNCHANGED <<cfg, i, blocks, reducedAt, grids, flow, steps, run, tensors, calls, others>>

PatchProject ==
    /\ pc = "augmented"
    /\ Apply("patch_project", -1,
             Conv2DValid(shape, PROJECTION_DIM, PATCH_SIZE, PATCH_SIZE), "projected")
    /\ UNCHANGED <<cfg, i, blocks, reducedAt, grids, flow, steps, run, tensors, calls, others>>

PatchFlatten ==
    /\ pc = "projected"
    /\ Apply("patch_flatten", -1,
             Reshape(shape, <<shape[1] * shape[2], shape[3]>>), "flattened")
    /\ UNCHANGED <<cfg, i, blocks, reducedAt, grids, flow, steps, run, tensors, calls, others>>

PositionEmbedding ==
    /\ pc = "flattened"
    /\ Apply("position_embedding", -1,
             position_embedding(shape, NUM_PATCHES, PROJECTION_DIM), "positioned")
    /\ UNCHANGED <<cfg, i, blocks, reducedAt, grids, flow, steps, run, tensors, calls, others>>

InputDropout ==
    /\ pc = "positioned"
    /\ Apply("dropout", -1, Dropout(shape), "loop")
    /\ i' = 0
    /\ UNCHANGED <<cfg, blocks, reducedAt, grids, flow, steps, run, tensors, calls, others>>

\* Mutants of InsertionPoint: three quarters of the way through the stack; an
\* index the loop never reaches.
InsertionPoint_three_quarters == (3 * NUM_LAYERS) \div 4

InsertionPoint_past_end == NUM_LAYERS

\* The condition of the loop's if statement.
InsertionPoint == NUM_LAYERS \div 2

\* Mutant of ReduceHere: use_token_learner is not looked at.
ReduceHere_always(layer) == layer = InsertionPoint

ReduceHere(layer) == use_token_learner /\ layer = InsertionPoint

\* One iteration of the layer loop up to its if statement.
TransformerBlock ==
    /\ pc = "loop"
    /\ i < NUM_LAYERS
    /\ LET out == transformer(shape)
       IN /\ Apply("transformer", i, out, IF ReduceHere(i) THEN "to_grid" ELSE "loop")
          /\ IF IsShape(out)
             THEN /\ blocks' = Append(blocks, [index |-> i, in |-> shape, out |-> out])
                  /\ i' = IF ReduceHere(i) THEN i ELSE i + 1
             ELSE UNCHANGED <<blocks, i>>
    /\ UNCHANGED <<cfg, reducedAt, grids, flow, steps, run, tensors, calls, others>>

\* The body of the if statement: the reshape of the sequence to a square grid ...
ToGrid ==
    /\ pc = "to_grid"
    /\ LET hh == shape[1]
           c  == shape[2]
           h  == IntSqrt(hh)
           out == Reshape(shape, <<h, h, c>>)
       IN /\ Apply("to_grid", i, out, "reduce")
          /\ grids' = IF IsShape(out) THEN grids + 1 ELSE grids
    /\ UNCHANGED <<cfg, i, blocks, reducedAt, flow, steps, run, tensors, calls, others>>

\* ... and the call of token_learner, which ends the iteration.
TokenLearner ==
    /\ pc = "reduce"
    /\ LET out == token_learner(shape, NUM_TOKENS)
       IN /\ Apply("token_learner", i, out.shape, "loop")
          /\ IF IsShape(out.shape)
             THEN /\ reducedAt' = Append(reducedAt, i)
                  /\ flow' = [weights |-> out.weights, values |-> out.values]
                  /\ i' = i + 1
             ELSE UNCHANGED <<reducedAt, flow, i>>
    /\ UNCHANGED <<cfg, blocks, grids, steps, run, tensors, calls, others>>

FinalLayerNorm ==
    /\ pc = "loop"
    /\ i = NUM_LAYERS
    /\ Apply("layer_norm", -1, LayerNormalization(shape), "normed")
    /\ UNCHANGED <<cfg, i, blocks, reducedAt, grids, flow, steps, run, tensors, calls, others>>

AvgPool ==
    /\ pc = "normed"
    /\ Apply("avg_pool", -1, GlobalAvgPool1D(shape), "pooled")
    /\ UNCHANGED <<cfg, i, blocks, reducedAt, grids, flow, steps, run, tensors, calls, others>>

Classify ==
    /\ pc = "pooled"
    /\ Apply("dense_softmax", -1, Dense(shape, NUM_CLASSES), "classified")
    /\ UNCHANGED <<cfg, i, blocks, reducedAt, grids, flow, steps, run, tensors, calls, others>>

\* keras.Model(inputs, outputs); return model.
ReturnModel ==
    /\ pc = "classified"
    /\ pc' = "built"
    /\ UNCHANGED <<cfg, shape, i, trace, blocks, reducedAt, grids, flow, err, steps, run, tensors, calls, others>>

\* run_experiment(model): model.compile, then the steps of model.fit.
Compile ==
    /\ pc = "built"
    /\ pc' = "compiled"
    /\ UNCHANGED <<cfg, shape, i, trace, blocks, reducedAt, grids, flow, err, steps, run, tensors, calls, others>>

TrainStep ==
    /\ pc \in {"compiled", "fit"}
    /\ steps < MaxSteps
    /\ pc' = "fit"
    /\ steps' = steps + 1
    /\ run' = [run EXCEPT !.params = steps + 1]
    /\ UNCHANGED <<cfg, shape, i, trace, blocks, reducedAt, grids, flow, err,
                   tensors, calls, others>>

Next ==
    \/ Augment
    \/ PatchProject
    \/ PatchFlatten
    \/ PositionEmbedding
    \/ InputDropout
    \/ TransformerBlock
    \/ ToGrid
    \/ TokenLearner
    \/ FinalLayerNorm
    \/ AvgPool
    \/ Classify
    \/ ReturnModel
    \/ Compile
    \/ TrainStep

Spec == Init /\ [][Next]_vars

\* The layer loop and what follows it, entered with any token sequence (n, D).
InitLoop ==
    /\ cfg \in {c \in Configs : c.IMAGE_SIZE = 1 /\ c.PATCH_SIZE = 1}
    /\ pc = "loop"
    /\ shape \in {<<n, cfg.PROJECTION_DIM>> : n \in 1..MaxSeq}
    /\ i = 0
    /\ trace = <<>>
    /\ blocks = <<>>
    /\ reducedAt = <<>>
    /\ grids = 0
    /\ flow = NoFlow
    /\ err = "none"
    /\ steps = 0
    /\ run = NoRun
    /\ tensors = NoTensors
    /\ calls = <<>>
    /\ OthersIdle

NextLoop ==
    \/ TransformerBlock
    \/ ToGrid
    \/ TokenLearner
    \/ FinalLayerNorm
    \/ AvgPool
    \/ Classify
    \/ ReturnModel
    \/ Compile
    \/ TrainStep

SpecLoop == InitLoop /\ [][NextLoop]_vars

\* position_embedding and what follows it, given any token sequence (n, D) and a
\* table of NUM_PATCHES rows.
InitPositions ==
    /\ cfg \in {c \in Configs : c.PATCH_SIZE = 1}
    /\ pc = "flattened"
    /\ shape \in {<<n, cfg.PROJECTION_DIM>> : n \in 1..MaxSeq}
    /\ i = 0
    /\ trace = <<>>
    /\ blocks = <<>>
    /\ reducedAt = <<>>
    /\ grids = 0
    /\ flow = NoFlow
    /\ err = "none"
    /\ steps = 0
    /\ run = NoRun
    /\ tensors = NoTensors
    /\ calls = <<>>
    /\ OthersIdle

NextPositions ==
    \/ PositionEmbedding
    \/ InputDropout
    \/ TransformerBlock
    \/ ToGrid
    \/ TokenLearner
    \/ FinalLayerNorm
    \/ AvgPool
    \/ Classify
    \/ ReturnModel

SpecPositions == InitPositions /\ [][NextPositions]_vars

\* ------------------------------------------- token_learner on given values
\* token_learner(inputs) for a grid (h, h, C) of given values, its convolutions
\* having given the pre-activations z.
AttentionMaps ==
    /\ pc = "tl_input"
    /\ tensors' = [tensors EXCEPT
                     !.maps = attention_maps(tensors.z, tensors.h * tensors.h, tensors.k)]
    /\ pc' = "tl_maps"
    /\ UNCHANGED <<cfg, shape, i, trace, blocks, reducedAt, grids, flow, err, steps,
                   run, calls, others>>

AttendInputs ==
    /\ pc = "tl_maps"
    /\ tensors' = [tensors EXCEPT !.attended = attended_inputs(tensors.maps, tensors.grid)]
    /\ pc' = "tl_product"
    /\ UNCHANGED <<cfg, shape, i, trace, blocks, reducedAt, grids, flow, err, steps,
                   run, calls, others>>

PoolOutputs ==
    /\ pc = "tl_product"
    /\ tensors' = [tensors EXCEPT !.out = pooled_outputs(tensors.attended, tensors.c)]
    /\ shape' = token_learner(shape, tensors.k).shape
    /\ pc' = "tl_done"
    /\ UNCHANGED <<cfg, i, trace, blocks, reducedAt, grids, flow, err, steps, run, calls, others>>

InitReduce ==
    /\ cfg \in {c \in Configs : c.PATCH_SIZE = 1 /\ c.NUM_LAYERS = 1 /\ c.use_token_learner}
    /\ pc = "tl_input"
    /\ shape = <<cfg.IMAGE_SIZE, cfg.IMAGE_SIZE, cfg.PROJECTION_DIM>>
    /\ i = 0
    /\ trace = <<>>
    /\ blocks = <<>>
    /\ reducedAt = <<>>
    /\ grids = 0
    /\ flow = NoFlow
    /\ err = "none"
    /\ steps = 0
    /\ run = NoRun
    /\ calls = <<>>
    /\ OthersIdle
    /\ \E pattern \in GridPatterns, first \in 1..Len(ZPatterns) :
          LET h == shape[1]
              c == shape[3]
              k == cfg.NUM_TOKENS
              zOf(m) == ZPatterns[((first + m) % Len(ZPatterns)) + 1]
          IN tensors =
                [NoTensors EXCEPT
                   !.h = h, !.c = c, !.k = k,
                   !.grid = [p \in 1..(h * h) |-> [d \in 1..c |-> GridValue(pattern, p, d)]],
                   !.z = [p \in 1..(h * h) |-> [m \in 1..k |-> ZValue(zOf(m), p)]]]

NextReduce ==
    \/ AttentionMaps
    \/ AttendInputs
    \/ PoolOutputs

SpecReduce == InitReduce /\ [][NextReduce]_vars

\* ------------------------------------------- run_experiment, step by step
\* model.fit(train_ds, epochs=EPOCHS, validation_data=val_ds, callbacks=[...])
\* runs, per epoch, a training step per batch, a validation pass and the
\* callbacks' on_epoch_end.  The number of epochs and of batches is capped.
Epochs == IF EPOCHS < MaxEpochs THEN EPOCHS ELSE MaxEpochs

StepsPerEpoch == MaxSteps

\* The loss of a batch is a finite number or not (NaN, infinity).
Losses == {"finite", "nan"}

\* The accuracies a validation pass may report.
Accuracies == 0..MaxAcc

\* Mutant of StepOrder: the optimizer is applied before the loss is computed.
StepOrder_apply_first == <<"forward", "apply", "loss", "gradients", "metrics">>

\* The statements of a training step, in their order: the forward pass, the
\* loss, tape.gradient, optimizer.apply_gradients, compiled_metrics.update_state.
StepOrder == <<"forward", "loss", "gradients", "apply", "metrics">>

Position(op) == CHOOSE k \in 1..Len(StepOrder) : StepOrder[k] = op

\* op is the next statement of the step under way (or of a new step).
Ready(op) ==
    IF Position(op) = 1 THEN run.phase = "idle"
    ELSE run.phase = StepOrder[Position(op) - 1]

\* The step's record once op has run; the last statement completes the step.
Advance(r, op) ==
    LET last == Position(op) = Len(StepOrder)
    IN [r EXCEPT !.phase = IF last THEN "idle" ELSE op,
                 !.stepTrace = IF Position(op) = 1 THEN <<op>> ELSE Append(@, op),
                 !.step = IF last THEN @ + 1 ELSE @]

\* Mutant of StopTraining: a TerminateOnNaN callback is installed.
StopTraining_on_nan(loss) == loss = "nan"

\* callbacks=[checkpoint_callback]: no callback sets model.stop_training.
StopTraining(loss) == FALSE

\* Mutant of Improved: the monitored quantity is minimized (mode="min").
Improved_min(current, best) == best < 0 \/ current < best

\* ModelCheckpoint(monitor="val_accuracy", save_best_only=True): an accuracy is
\* monitored for its maximum, and a save happens on a strict improvement.
Improved(current, best) == current > best

\* Mutant of TestStepParams: the evaluation runs an optimizer update.
TestStepParams_trains(params) == params + 1

\* The parameters after a validation or test pass: no gradient is applied.
TestStepParams(params) == params

\* Mutant of AfterWriteFailure: the failure is logged and fit goes on.
AfterWriteFailure_reported(more) == IF more THEN "epoch_end" ELSE "fit_done"

\* save_weights raises in on_epoch_end; nothing between the callback and the
\* caller of run_experiment catches the exception.
AfterWriteFailure(more) == "error"

InTrainStep(op) ==
    /\ pc = "train"
    /\ run.step < StepsPerEpoch
    /\ Ready(op)

EpochBegin ==
    /\ pc \in {"compiled", "epoch_end"}
    /\ run.epoch < Epochs
    /\ pc' = "train"
    /\ run' = [run EXCEPT !.epoch = @ + 1, !.step = 0]
    /\ UNCHANGED <<cfg, shape, i, trace, blocks, reducedAt, grids, flow, err, steps,
                   tensors, calls, others>>

Forward ==
    /\ InTrainStep("forward")
    /\ run' = Advance(run, "forward")
    /\ UNCHANGED <<cfg, pc, shape, i, trace, blocks, reducedAt, grids, flow, err, steps,
                   tensors, calls, others>>

Loss ==
    /\ InTrainStep("loss")
    /\ \E l \in Losses :
          run' = [Advance(run, "loss") EXCEPT !.loss = l,
                                             !.nonFinite = @ \/ l = "nan"]
    /\ UNCHANGED <<cfg, pc, shape, i, trace, blocks, reducedAt, grids, flow, err, steps,
                   tensors, calls, others>>

Gradients ==
    /\ InTrainStep("gradients")
    /\ run' = Advance(run, "gradients")
    /\ UNCHANGED <<cfg, pc, shape, i, trace, blocks, reducedAt, grids, flow, err, steps,
                   tensors, calls, others>>

\* optimizer.apply_gradients: new parameters, whatever the loss was.
ApplyGradients ==
    /\ InTrainStep("apply")
    /\ steps' = steps + 1
    /\ run' = [Advance(run, "apply") EXCEPT !.params = steps + 1]
    /\ UNCHANGED <<cfg, pc, shape, i, trace, blocks, reducedAt, grids, flow, err,
                   tensors, calls, others>>

\* The metrics' update, then the callbacks' on_train_batch_end.
UpdateMetrics ==
    /\ InTrainStep("metrics")
    /\ run' = Advance(run, "metrics")
    /\ pc' = IF StopTraining(run.loss) THEN "fit_done" ELSE pc
    /\ UNCHANGED <<cfg, shape, i, trace, blocks, reducedAt, grids, flow, err, steps,
                   tensors, calls, others>>

\* The validation pass at the end of the epoch's batches.
Validate ==
    /\ pc = "train"
    /\ run.phase = "idle"
    /\ run.step = StepsPerEpoch
    /\ \E accuracy \in Accuracies :
          run' = [run EXCEPT !.params = TestStepParams(@),
                             !.valAcc = Append(@, accuracy),
                             !.epochParams = Append(@, TestStepParams(run.params))]
    /\ pc' = "validated"
    /\ UNCHANGED <<cfg, shape, i, trace, blocks, reducedAt, grids, flow, err, steps,
                   tensors, calls, others>>

\* ModelCheckpoint.on_epoch_end: the weights are saved on an improvement.
SaveCheckpoint ==
    /\ pc = "validated"
    /\ LET current == run.valAcc[run.epoch]
       IN run' = IF Improved(current, run.best)
                 THEN [run EXCEPT !.best = current,
                                  !.checkpoint = [epoch  |-> run.epoch,
                                                  params |-> run.params,
                                                  acc    |-> current]]
                 ELSE run
    /\ pc' = IF run.epoch < Epochs THEN "epoch_end" ELSE "fit_done"
    /\ UNCHANGED <<cfg, shape, i, trace, blocks, reducedAt, grids, flow, err, steps,
                   tensors, calls, others>>

\* ModelCheckpoint.on_epoch_end where writing the file fails.
CheckpointWriteFails ==
    /\ pc = "validated"
    /\ Improved(run.valAcc[run.epoch], run.best)
    /\ run' = [run EXCEPT !.best = run.valAcc[run.epoch], !.writeFailed = TRUE]
    /\ pc' = AfterWriteFailure(run.epoch < Epochs)
    /\ err' = "checkpoint_write"
    /\ UNCHANGED <<cfg, shape, i, trace, blocks, reducedAt, grids, flow, steps,
                   tensors, calls, others>>

\* model.load_weights(checkpoint_filepath); it raises if no file was written.
LoadWeights ==
    /\ pc = "fit_done"
    /\ IF run.checkpoint = NoCheckpoint
       THEN /\ pc' = "error"
            /\ err' = "load_weights"
            /\ run' = run
       ELSE /\ pc' = "loaded"
            /\ err' = err
            /\ run' = [run EXCEPT !.params = run.checkpoint.params]
    /\ UNCHANGED <<cfg, shape, i, trace, blocks, reducedAt, grids, flow, steps,
                   tensors, calls, others>>

\* model.evaluate(test_ds).
Evaluate ==
    /\ pc = "loaded"
    /\ run' = [run EXCEPT !.tested = run.params, !.params = TestStepParams(@)]
    /\ pc' = "evaluated"
    /\ UNCHANGED <<cfg, shape, i, trace, blocks, reducedAt, grids, flow, err, steps,
                   tensors, calls, others>>

\* The notebook's run: create_vit_classifier() with its hyperparameters, then
\* run_experiment on the model.
InitRun == Init /\ cfg = NotebookConfig

NextRun ==
    \/ Augment
    \/ PatchProject
    \/ PatchFlatten
    \/ PositionEmbedding
    \/ InputDropout
    \/ TransformerBlock
    \/ ToGrid
    \/ TokenLearner
    \/ FinalLayerNorm
    \/ AvgPool
    \/ Classify
    \/ ReturnModel
    \/ Compile
    \/ EpochBegin
    \/ Forward
    \/ Loss
    \/ Gradients
    \/ ApplyGradients
    \/ UpdateMetrics
    \/ Validate
    \/ SaveCheckpoint
    \/ CheckpointWriteFails
    \/ LoadWeights
    \/ Evaluate

SpecRun == InitRun /\ [][NextRun]_vars

\* ------------------------------------------------ calls of the built model
\* The layers that draw random numbers when called with training=True:
\* RandomCrop and RandomFlip of data_augmentation, layers.Dropout, and the
\* dropout of MultiHeadAttention and of mlp inside transformer.
RandomLayers == {"data_augmentation", "dropout", "transformer"}

\* Mutant of UsesRandomness: the layers ignore the training flag.
UsesRandomness_always(stage, training) == stage \in RandomLayers

\* With training=False these layers are deterministic: no dropout, a centre
\* crop, no flip.
UsesRandomness(stage, training) == training /\ stage \in RandomLayers

\* The images the model is called on, and the states of the random generator.
Images == {"image_a", "image_b"}

Seeds == {"seed_a", "seed_b"}

\* The model applied to a value layer by layer.  A value is what it was computed
\* from: the input, the parameters, and the random draws that went into it.
RECURSIVE call_layers(_, _, _, _)
call_layers(layers, value, training, seed) ==
    IF layers = <<>> THEN value
    ELSE LET out == IF UsesRandomness(Head(layers).stage, training)
                    THEN [value EXCEPT !.noise = Append(@, seed)]
                    ELSE value
         IN call_layers(Tail(layers), out, training, seed)

\* model(x, training=...), as predict, evaluate and fit call it.
CallModel ==
    /\ pc = "built"
    /\ Len(calls) < MaxCalls
    /\ \E x \in Images, training \in BOOLEAN, seed \in Seeds :
          LET value == [input |-> x, params |-> run.params, noise |-> <<>>]
          IN calls' = Append(calls,
                             [input |-> x, training |-> training, seed |-> seed,
                              params |-> run.params,
                              out |-> call_layers(trace, value, training, seed)])
    /\ UNCHANGED <<cfg, pc, shape, i, trace, blocks, reducedAt, grids, flow, err, steps,
                   run, tensors, others>>

InitCalls ==
    /\ Init
    /\ \/ cfg = NotebookConfig
       \/ /\ cfg.IMAGE_SIZE = MaxImage
          /\ cfg.PATCH_SIZE = MaxPatch
          /\ cfg.PROJECTION_DIM = MaxDim
          /\ cfg.NUM_LAYERS = MaxLayers
          /\ cfg.NUM_TOKENS = MaxTokens

NextCalls ==
    \/ Augment
    \/ PatchProject
    \/ PatchFlatten
    \/ PositionEmbedding
    \/ InputDropout
    \/ TransformerBlock
    \/ ToGrid
    \/ TokenLearner
    \/ FinalLayerNorm
    \/ AvgPool
    \/ Classify
    \/ ReturnModel
    \/ CallModel

SpecCalls == InitCalls /\ [][NextCalls]_vars

\* ------------------------------------------- the values of the output layer
\* A probability counts units of 1 / Precision and is rounded to the nearest
\* unit, as a floating-point value is rounded to the nearest representable one.
\* A logit is an integer number of ln 2, so that its exponential is a power of 2.
RECURSIVE Pow2(_)
Pow2(n) == IF n <= 0 THEN 1 ELSE 2 * Pow2(n - 1)

Least(xs) == CHOOSE v \in {xs[j] : j \in 1..Len(xs)} : \A j \in 1..Len(xs) : v <= xs[j]

Rounded(num, den) == (2 * num + den) \div (2 * den)

\* A tensor holds its values: they are computed once, when it is made.
Values(f) == f \o <<>>

\* Mutant of softmax: each exponential is divided by the largest one, not by
\* their sum.
softmax_by_largest(z) ==
    LET least == Least(z)
        w == Values([j \in 1..Len(z) |-> Pow2(z[j] - least)])
        largest == -Least([j \in 1..Len(z) |-> -w[j]])
    IN Values([j \in 1..Len(z) |-> Rounded(w[j] * Precision, largest)])

\* activation="softmax" on one row of logits: exp(z[j]) / sum of exp(z).
softmax(z) ==
    LET least == Least(z)
        w == Values([j \in 1..Len(z) |-> Pow2(z[j] - least)])
        total == Sum(w)
    IN Values([j \in 1..Len(z) |-> Rounded(w[j] * Precision, total)])

\* The rows of logits the Dense layer is run on: all equal, rising, one class
\* far ahead of the others.
LogitPatterns == {"equal", "ramp", "peak"}

LogitValue(pattern, j, class, size) ==
    CASE pattern = "equal" -> 0
      [] pattern = "ramp"  -> ((j + class) % (2 * size + 1)) - size
      [] pattern = "peak"  -> IF j = class THEN size ELSE -size

\* layers.Dense(NUM_CLASSES, activation="softmax")(representation) on a batch.
\* With parameters that are not finite the logits and the outputs are NaN.
ClassifyValues ==
    /\ pc = "head_logits"
    /\ probs' = [probs EXCEPT
                   !.out = IF probs.finite
                           THEN [r \in 1..Len(probs.logits) |-> softmax(probs.logits[r])]
                           ELSE <<>>]
    /\ shape' = Dense(shape, NUM_CLASSES)
    /\ pc' = "head_done"
    /\ UNCHANGED <<cfg, i, trace, blocks, reducedAt, grids, flow, err, steps,
                   run, tensors, calls, distiller, classifier, grads, timer>>

InitClassify ==
    /\ cfg = NotebookConfig
    /\ pc = "head_logits"
    /\ shape = <<cfg.PROJECTION_DIM>>
    /\ i = cfg.NUM_LAYERS
    /\ trace = <<>>
    /\ blocks = <<>>
    /\ reducedAt = <<>>
    /\ grids = 0
    /\ flow = NoFlow
    /\ err = "none"
    /\ steps = 0
    /\ run = NoRun
    /\ tensors = NoTensors
    /\ calls = <<>>
    /\ distiller = NoDistiller
    /\ classifier = NoClassifier
    /\ grads = NoGrads
    /\ timer = NoTimer
    /\ \E pattern \in LogitPatterns, class \in 1..NUM_CLASSES, size \in 1..MaxLogit,
          B \in 1..MaxBatch, finite \in BOOLEAN :
          probs = [finite |-> finite,
                   logits |-> [r \in 1..B |->
                                 [j \in 1..NUM_CLASSES |->
                                    LogitValue(pattern, j,
                                               ((class + r) % NUM_CLASSES) + 1, size)]],
                   out |-> <<>>]

NextClassify == ClassifyValues

SpecClassify == InitClassify /\ [][NextClassify]_vars

\* ------------------------------------------------------------ the Distiller
\* alpha counts units of 1 / AlphaUnit, a loss units of 1 / Precision (and the
\* weighted loss units of 1 / (AlphaUnit * Precision)).
\* The logits a model with the given weights returns for input x: a class it
\* prefers, which moves with the input and the weights.
Predictions(weights, x, size) ==
    Values([j \in 1..NUM_CLASSES |->
              IF j = ((x + weights) % NUM_CLASSES) + 1 THEN size
              ELSE IF j = ((x + weights + 1) % NUM_CLASSES) + 1 THEN 0 ELSE -size])

teacher(weights, x) == Predictions(weights, 2 * x, MaxLogit)

student(weights, x) == Predictions(weights, x, 1)

\* predictions / self.temperature, rounded to the unit of the logits.
Softened(predictions, temperature) ==
    softmax(Values([j \in 1..Len(predictions) |-> Rounded(predictions[j], temperature)]))

\* student_loss_fn(y, predictions): stands for a loss on the label and the
\* prediction alone, 0 when the label's class has probability 1.
student_loss_fn(y, predictions) == Precision - softmax(predictions)[y]

\* distillation_loss_fn(p, q): stands for a divergence of two distributions,
\* 0 when they are equal.
distillation_loss_fn(p, q) == Sum([j \in 1..Len(p) |-> IF p[j] >= q[j] THEN p[j] - q[j]
                                                                      ELSE q[j] - p[j]])

\* Mutant of train_step_loss: the weights alpha and 1 - alpha are exchanged.
train_step_loss_swapped(alpha, temperature, y, student_predictions, teacher_predictions) ==
    LET student_loss == student_loss_fn(y, student_predictions)
        distillation_loss ==
            distillation_loss_fn(Softened(teacher_predictions, temperature),
                                 Softened(student_predictions, temperature))
            * temperature * temperature
    IN [student_loss |-> student_loss,
        distillation_loss |-> distillation_loss,
        loss |-> (AlphaUnit - alpha) * student_loss + alpha * distillation_loss]

\* The losses train_step computes under the gradient tape.
train_step_loss(alpha, temperature, y, student_predictions, teacher_predictions) ==
    LET student_loss == student_loss_fn(y, student_predictions)
        distillation_loss ==
            distillation_loss_fn(Softened(teacher_predictions, temperature),
                                 Softened(student_predictions, temperature))
            * temperature * temperature
    IN [student_loss |-> student_loss,
        distillation_loss |-> distillation_loss,
        loss |-> alpha * student_loss + (AlphaUnit - alpha) * distillation_loss]

\* Mutant of trainable_vars: the Distiller's own trainable variables, which
\* include the teacher's.
trainable_vars_of_distiller(d) == {"student", "teacher"}

\* trainable_vars = self.student.trainable_variables.
trainable_vars(d) == {"student"}

\* The inputs and labels of a batch.
Inputs == 1..MaxInputs

Labels(x) == {(x % NUM_CLASSES) + 1, ((x + 1) % NUM_CLASSES) + 1}

\* distiller.compile(optimizer, metrics, student_loss_fn, distillation_loss_fn,
\* alpha, temperature).
DistillerCompile ==
    /\ pc = "kd_new"
    /\ \E alpha \in 0..AlphaUnit, temperature \in 1..MaxTemp :
          distiller' = [distiller EXCEPT !.alpha = alpha, !.temperature = temperature]
    /\ pc' = "kd_compiled"
    /\ UNCHANGED <<cfg, shape, i, trace, blocks, reducedAt, grids, flow, err, steps,
                   run, tensors, calls, probs, classifier, grads, timer>>

\* Distiller.train_step(data).
DistillerTrainStep ==
    /\ pc = "kd_compiled"
    /\ distiller.calls < MaxCalls
    /\ \E x \in Inputs : \E y \in Labels(x) :
          LET teacher_predictions == teacher(distiller.teacher, x)
              student_predictions == student(distiller.student, x)
              losses == train_step_loss(distiller.alpha, distiller.temperature, y,
                                        student_predictions, teacher_predictions)
              updated == trainable_vars(distiller)
          IN distiller' =
                [distiller EXCEPT
                   !.wrt = @ \cup updated,
                   !.student = IF "student" \in updated THEN @ + 1 ELSE @,
                   !.teacher = IF "teacher" \in updated THEN @ + 1 ELSE @,
                   !.last = [kind |-> "train", x |-> x, y |-> y,
                             student_loss |-> losses.student_loss,
                             distillation_loss |-> losses.distillation_loss,
                             loss |-> losses.loss],
                   !.calls = @ + 1]
    /\ UNCHANGED <<cfg, pc, shape, i, trace, blocks, reducedAt, grids, flow, err, steps,
                   run, tensors, calls, probs, classifier, grads, timer>>

\* Distiller.test_step(data).
DistillerTestStep ==
    /\ pc = "kd_compiled"
    /\ distiller.calls < MaxCalls
    /\ \E x \in Inputs : \E y \in Labels(x) :
          LET y_prediction == student(distiller.student, x)
              student_loss == student_loss_fn(y, y_prediction)
          IN distiller' =
                [distiller EXCEPT
                   !.last = [kind |-> "test", x |-> x, y |-> y,
                             student_loss |-> student_loss,
                             distillation_loss |-> 0,
                             loss |-> 0],
                   !.calls = @ + 1]
    /\ UNCHANGED <<cfg, pc, shape, i, trace, blocks, reducedAt, grids, flow, err, steps,
                   run, tensors, calls, probs, classifier, grads, timer>>

\* distiller = Distiller(student=student, teacher=teacher).
InitDistill ==
    /\ cfg = NotebookConfig
    /\ pc = "kd_new"
    /\ shape = <<>>
    /\ i = 0
    /\ trace = <<>>
    /\ blocks = <<>>
    /\ reducedAt = <<>>
    /\ grids = 0
    /\ flow = NoFlow
    /\ err = "none"
    /\ steps = 0
    /\ run = NoRun
    /\ tensors = NoTensors
    /\ calls = <<>>
    /\ OthersIdle

NextDistill ==
    \/ DistillerCompile
    \/ DistillerTrainStep
    \/ DistillerTestStep

SpecDistill == InitDistill /\ [][NextDistill]_vars

\* ------------------------------------------- supervised contrastive learning
\* The layers of the encoder with trainable weights: the ResNet50V2 (the
\* input layer has none, the augmentation's Normalization only statistics set
\* by adapt).
HasWeights(l) == EncoderLayers[l] = "resnet50v2"

\* The layers that update statistics of their own in a training-mode forward
\* pass: the BatchNormalization layers inside the ResNet50V2.
HasMovingStatistics(l) == EncoderLayers[l] = "resnet50v2"

\* Mutant of trainable_weights: the trainable flag of a layer is ignored.
trainable_weights_of_all(c) == {l \in 1..Len(EncoderLayers) : HasWeights(l)}

\* The encoder's layers whose weights the optimizer updates.
trainable_weights(c) ==
    {l \in 1..Len(EncoderLayers) : c.trainable[l] /\ HasWeights(l)}

\* One training step through the encoder: the weights of the trainable
\* layers are updated, and a BatchNormalization layer updates its moving
\* statistics unless it is frozen (a frozen one runs in inference mode).
EncoderTrainStep(c) ==
    [c EXCEPT
       !.weights = [l \in 1..Len(EncoderLayers) |->
                      IF l \in trainable_weights(c) THEN @[l] + 1 ELSE @[l]],
       !.statistics = [l \in 1..Len(EncoderLayers) |->
                         IF HasMovingStatistics(l) /\ l \in trainable_weights(c)
                         THEN @[l] + 1 ELSE @[l]]]

\* encoder_with_projection_head.fit(...): one training step.
PretrainStep ==
    /\ pc = "sc_pretrain"
    /\ classifier.pretraining < MaxEpochs * MaxSteps
    /\ classifier' = [EncoderTrainStep(classifier) EXCEPT !.dense_2 = @ + 1,
                                                         !.pretraining = @ + 1]
    /\ UNCHANGED <<cfg, pc, shape, i, trace, blocks, reducedAt, grids, flow, err, steps,
                   run, tensors, calls, probs, distiller, grads, timer>>

\* create_classifier(encoder, trainable) is entered.
CreateClassifier ==
    /\ pc = "sc_pretrain"
    /\ \E trainable \in BOOLEAN :
          classifier' = [classifier EXCEPT
                           !.arg = trainable,
                           !.layer = 1,
                           !.pretrained = [weights |-> classifier.weights,
                                           statistics |-> classifier.statistics]]
    /\ pc' = "sc_layers"
    /\ UNCHANGED <<cfg, shape, i, trace, blocks, reducedAt, grids, flow, err, steps,
                   run, tensors, calls, probs, distiller, grads, timer>>

\* for layer in encoder.layers: layer.trainable = trainable.
SetTrainable ==
    /\ pc = "sc_layers"
    /\ classifier.layer <= Len(EncoderLayers)
    /\ classifier' = [classifier EXCEPT !.trainable[classifier.layer] = classifier.arg,
                                        !.layer = @ + 1]
    /\ UNCHANGED <<cfg, pc, shape, i, trace, blocks, reducedAt, grids, flow, err, steps,
                   run, tensors, calls, probs, distiller, grads, timer>>

\* The rest of create_classifier: the Dropout and Dense layers on top of the
\* encoder, keras.Model and model.compile.
CompileClassifier ==
    /\ pc = "sc_layers"
    /\ classifier.layer > Len(EncoderLayers)
    /\ classifier' = [classifier EXCEPT !.compiled = TRUE]
    /\ pc' = "sc_compiled"
    /\ UNCHANGED <<cfg, shape, i, trace, blocks, reducedAt, grids, flow, err, steps,
                   run, tensors, calls, probs, distiller, grads, timer>>

\* classifier.fit(...): one training step.
ClassifierTrainStep ==
    /\ pc = "sc_compiled"
    /\ classifier.steps < MaxEpochs * MaxSteps
    /\ classifier' = [EncoderTrainStep(classifier) EXCEPT
                        !.head = <<@[1] + 1, @[2] + 1>>,
                        !.steps = @ + 1]
    /\ UNCHANGED <<cfg, pc, shape, i, trace, blocks, reducedAt, grids, flow, err, steps,
                   run, tensors, calls, probs, distiller, grads, timer>>

\* classifier.evaluate(x_test, y_test).
ClassifierEvaluate ==
    /\ pc = "sc_compiled"
    /\ pc' = "sc_evaluated"
    /\ UNCHANGED <<cfg, shape, i, trace, blocks, reducedAt, grids, flow, err, steps,
                   run, tensors, calls, others>>

\* encoder = create_encoder(); encoder_with_projection_head is compiled.
InitContrastive ==
    /\ cfg = NotebookConfig
    /\ pc = "sc_pretrain"
    /\ shape = <<>>
    /\ i = 0
    /\ trace = <<>>
    /\ blocks = <<>>
    /\ reducedAt = <<>>
    /\ grids = 0
    /\ flow = NoFlow
    /\ err = "none"
    /\ steps = 0
    /\ run = NoRun
    /\ tensors = NoTensors
    /\ calls = <<>>
    /\ OthersIdle

NextContrastive ==
    \/ PretrainStep
    \/ CreateClassifier
    \/ SetTrainable
    \/ CompileClassifier
    \/ ClassifierTrainStep
    \/ ClassifierEvaluate

SpecContrastive == InitContrastive /\ [][NextContrastive]_vars

\* ---------------------------------------------------- gradient centralization
\* A gradient is its rank and its values as rows of entries along the last
\* axis (all other axes flattened into the rows): a scalar is one row of one
\* entry, a vector one row.
GradPatterns == {"zero", "ones", "ramp"}

\* The entries are multiples of the number of rows, so that the mean over
\* the rows is a whole number.
GradValue(pattern, r, c, rows) ==
    CASE pattern = "zero" -> 0
      [] pattern = "ones" -> rows
      [] pattern = "ramp" -> rows * (r + 2 * c)

Gradient(rank, pattern) ==
    LET rows == IF rank > 1 THEN MaxAxis ELSE 1
        cols == IF rank > 0 THEN MaxAxis ELSE 1
    IN [rank |-> rank,
        values |-> [r \in 1..rows |-> [c \in 1..cols |-> GradValue(pattern, r, c, rows)]]]

GradientSet == {Gradient(rank, pattern) : rank \in 0..2, pattern \in GradPatterns}

\* tf.reduce_mean(grad, axis=list(range(grad_len - 1)), keepdims=True): for
\* each index of the last axis the mean over all the other axes.
reduce_mean_keep_dims(grad) ==
    [c \in 1..Len(grad.values[1]) |->
        LET mean == reduce_mean([r \in 1..Len(grad.values) |-> grad.values[r][c]])
        IN mean.num \div mean.den]

\* grad -= mean, the mean broadcast along the rows.
Centralized(grad) ==
    [grad EXCEPT !.values = [r \in 1..Len(grad.values) |->
                               [c \in 1..Len(grad.values[r]) |->
                                  grad.values[r][c] - reduce_mean_keep_dims(grad)[c]]]]

\* The parameters RMSprop.get_gradients(self, loss, params) requires and the
\* arguments line 412 passes to it.
get_gradients_params == <<"loss", "params">>

super_get_gradients_args == <<>>

\* The keywords tf.reduce_mean accepts in TensorFlow 2 and those line 417
\* passes to it.
reduce_mean_keywords == {"axis", "keepdims", "name"}

reduce_mean_args == {"axis", "keep_dims"}

\* GCRMSprop.get_gradients(loss, params): what it returns or raises, given
\* the gradients the optimizer computes for loss and params.
get_gradients(gradients) ==
    IF Len(super_get_gradients_args) # Len(get_gradients_params)
    THEN [out |-> <<>>, err |-> "TypeError"]
    ELSE IF /\ \E k \in 1..Len(gradients) : gradients[k].rank > 1
            /\ ~(reduce_mean_args \subseteq reduce_mean_keywords)
    THEN [out |-> <<>>, err |-> "TypeError"]
    ELSE [out |-> [k \in 1..Len(gradients) |->
                     IF gradients[k].rank > 1 THEN Centralized(gradients[k])
                     ELSE gradients[k]],
          err |-> "none"]

\* optimizer.get_gradients(loss, params) is called.
GetGradients ==
    /\ pc = "gc_ready"
    /\ LET result == get_gradients(grads.gradients)
       IN /\ grads' = [grads EXCEPT !.out = result.out, !.err = result.err]
          /\ pc' = IF result.err = "none" THEN "gc_returned" ELSE "gc_raised"
    /\ UNCHANGED <<cfg, shape, i, trace, blocks, reducedAt, grids, flow, err, steps,
                   run, tensors, calls, probs, distiller, classifier, timer>>

\* optimizer = GCRMSprop(learning_rate=1e-4), and a loss and parameters
\* whose gradients are any list of gradients of rank 0, 1 or 2.
InitGradients ==
    /\ cfg = NotebookConfig
    /\ pc = "gc_ready"
    /\ shape = <<>>
    /\ i = 0
    /\ trace = <<>>
    /\ blocks = <<>>
    /\ reducedAt = <<>>
    /\ grids = 0
    /\ flow = NoFlow
    /\ err = "none"
    /\ steps = 0
    /\ run = NoRun
    /\ tensors = NoTensors
    /\ calls = <<>>
    /\ probs = NoProbs
    /\ distiller = NoDistiller
    /\ classifier = NoClassifier
    /\ timer = NoTimer
    /\ \E n \in 1..MaxGrads : \E gradients \in [1..n -> GradientSet] :
          grads = [NoGrads EXCEPT !.gradients = gradients]

NextGradients == GetGradients

SpecGradients == InitGradients /\ [][NextGradients]_vars

\* --------------------------------------------------------------- TimeHistory
\* Whether an on_epoch_begin is waiting for its on_epoch_end.
RECURSIVE EpochOpen(_)
EpochOpen(events) ==
    IF events = <<>> THEN FALSE
    ELSE LET last == events[Len(events)]
         IN IF last.name = "on_epoch_begin" THEN TRUE
            ELSE IF last.name = "on_epoch_end" THEN FALSE
            ELSE EpochOpen(SubSeq(events, 1, Len(events) - 1))

\* Mutant of times_append: the time of the end of the epoch is appended.
times_append_now(times, now, epoch_time_start) == Append(times, now)

\* self.times.append(time() - self.epoch_time_start).
times_append(times, now, epoch_time_start) == Append(times, now - epoch_time_start)

\* time() advances between two events.
TimePasses ==
    /\ pc = "th_idle"
    /\ timer.now < MaxClock
    /\ timer' = [timer EXCEPT !.now = @ + 1]
    /\ UNCHANGED <<cfg, pc, shape, i, trace, blocks, reducedAt, grids, flow, err, steps,
                   run, tensors, calls, probs, distiller, classifier, grads>>

on_train_begin ==
    /\ pc = "th_idle"
    /\ Len(timer.events) < MaxEvents
    /\ timer' = [timer EXCEPT
                   !.has_times = TRUE,
                   !.times = <<>>,
                   !.events = Append(@, [name |-> "on_train_begin", time |-> timer.now])]
    /\ UNCHANGED <<cfg, pc, shape, i, trace, blocks, reducedAt, grids, flow, err, steps,
                   run, tensors, calls, probs, distiller, classifier, grads>>

on_epoch_begin ==
    /\ pc = "th_idle"
    /\ Len(timer.events) < MaxEvents
    /\ timer' = [timer EXCEPT
                   !.has_start = TRUE,
                   !.epoch_time_start = timer.now,
                   !.events = Append(@, [name |-> "on_epoch_begin", time |-> timer.now])]
    /\ UNCHANGED <<cfg, pc, shape, i, trace, blocks, reducedAt, grids, flow, err, steps,
                   run, tensors, calls, probs, distiller, classifier, grads>>

\* on_epoch_end, sent only for an epoch that has begun; without an
\* on_train_begin before it there is no self.times to append to.
on_epoch_end ==
    /\ pc = "th_idle"
    /\ Len(timer.events) < MaxEvents
    /\ EpochOpen(timer.events)
    /\ IF timer.has_times /\ timer.has_start
       THEN /\ timer' = [timer EXCEPT
                           !.times = times_append(@, timer.now, timer.epoch_time_start),
                           !.events = Append(@, [name |-> "on_epoch_end",
                                                 time |-> timer.now])]
            /\ pc' = pc
       ELSE /\ timer' = [timer EXCEPT
                           !.err = "AttributeError",
                           !.events = Append(@, [name |-> "on_epoch_end",
                                                 time |-> timer.now])]
            /\ pc' = "th_raised"
    /\ UNCHANGED <<cfg, shape, i, trace, blocks, reducedAt, grids, flow, err, steps,
                   run, tensors, calls, probs, distiller, classifier, grads>>

\* time_callback = TimeHistory().
InitTimer ==
    /\ cfg = NotebookConfig
    /\ pc = "th_idle"
    /\ shape = <<>>
    /\ i = 0
    /\ trace = <<>>
    /\ blocks = <<>>
    /\ reducedAt = <<>>
    /\ grids = 0
    /\ flow = NoFlow
    /\ err = "none"
    /\ steps = 0
    /\ run = NoRun
    /\ tensors = NoTensors
    /\ calls = <<>>
    /\ OthersIdle

NextTimer ==
    \/ TimePasses
    \/ on_train_begin
    \/ on_epoch_begin
    \/ on_epoch_end

SpecTimer == InitTimer /\ [][NextTimer]_vars

\* ------------------------------------------------------------- properties
N == (IMAGE_SIZE \div PATCH_SIZE) * (IMAGE_SIZE \div PATCH_SIZE)

K == NUM_TOKENS

D == PROJECTION_DIM

IsSquare(n) == \E h \in 0..n : h * h = n

AfterLoop == {"normed", "pooled", "classified", "built", "compiled", "fit"}

BuildFits == IMAGE_SIZE >= PATCH_SIZE

\* C1: with the reducer enabled, every transformer block up to and including the
\* one at the reduction point takes and returns N tokens, every later block takes
\* and returns K tokens, the final layer-norm takes K tokens, and the sequence has
\* no other length at any point of the stack; no layer of the stack raises.
C1_TokenCount ==
    (use_token_learner /\ BuildFits) =>
        /\ err = "none"
        /\ \A k \in 1..Len(blocks) :
              IF blocks[k].index <= NUM_LAYERS \div 2
              THEN blocks[k].in[1] = N /\ blocks[k].out[1] = N
              ELSE blocks[k].in[1] = K /\ blocks[k].out[1] = K
        /\ (pc \in {"loop", "to_grid"}) => shape[1] \in {N, K}
        /\ (pc = "loop" /\ i <= NUM_LAYERS \div 2) => shape[1] = N
        /\ (pc = "loop" /\ i > NUM_LAYERS \div 2) => shape[1] = K
        /\ (pc = "normed") => shape[1] = K

C1_Witness ==
    /\ use_token_learner
    /\ pc = "built"
    /\ Len(blocks) = NUM_LAYERS
    /\ NUM_LAYERS >= 3
    /\ N # K
    /\ blocks[1].in[1] = N
    /\ blocks[NUM_LAYERS].out[1] = K

\* C2: token_learner turns every square grid (h, h, D') with h >= 1 into K tokens
\* of width D', whatever h is.
C2_ReducerShape ==
    [][pc = "reduce" =>
          /\ Len(shape) = 3 /\ shape[1] = shape[2] /\ shape[1] >= 1
          /\ pc' = "loop"
          /\ shape' = <<NUM_TOKENS, shape[3]>>]_vars

C2_Witness ==
    /\ Len(trace) > 0
    /\ trace[Len(trace)].stage = "token_learner"
    /\ pc = "loop"
    /\ shape = <<NUM_TOKENS, PROJECTION_DIM>>
    /\ N >= 4
    /\ K = 3

\* C3: with the reducer enabled, token_learner is applied at most once while the
\* stack is built and exactly once by the time the loop has ended, at the index
\* NUM_LAYERS // 2, which is an index of the loop; the sequence is turned into a
\* grid exactly as often.
C3_OneReduction ==
    (use_token_learner /\ BuildFits) =>
        /\ Len(reducedAt) <= 1
        /\ grids <= 1
        /\ \A k \in 1..Len(reducedAt) :
              /\ reducedAt[k] = NUM_LAYERS \div 2
              /\ 0 <= reducedAt[k]
              /\ reducedAt[k] < NUM_LAYERS
        /\ (pc \in AfterLoop \/ (pc = "loop" /\ i = NUM_LAYERS)) =>
              (Len(reducedAt) = 1 /\ grids = 1)

C3_Witness ==
    /\ use_token_learner
    /\ pc = "built"
    /\ NUM_LAYERS >= 3
    /\ reducedAt = <<NUM_LAYERS \div 2>>
    /\ Len(blocks) = NUM_LAYERS

\* C4: the layers are applied in one order: input, patch projection, flatten,
\* positional encoding, dropout, the blocks 0..L-1 in index order with the grid
\* reshape and the reducer directly after the block at the insertion point, final
\* layer-norm, average pooling, dense softmax head.  (The augmentation, which the
\* claim does not list, is left out of the comparison.)
RECURSIVE LoopStages(_)
LoopStages(layer) ==
    IF layer >= NUM_LAYERS THEN <<>>
    ELSE <<Stage("transformer", layer)>>
         \o (IF use_token_learner /\ layer = NUM_LAYERS \div 2
             THEN <<Stage("to_grid", layer), Stage("token_learner", layer)>>
             ELSE <<>>)
         \o LoopStages(layer + 1)

ExpectedOrder ==
    <<Stage("input", -1), Stage("patch_project", -1), Stage("patch_flatten", -1),
      Stage("position_embedding", -1), Stage("dropout", -1)>>
    \o LoopStages(0)
    \o <<Stage("layer_norm", -1), Stage("avg_pool", -1), Stage("dense_softmax", -1)>>

IsListed(st) == st.stage # "data_augmentation"

IsPrefix(a, b) == Len(a) <= Len(b) /\ a = SubSeq(b, 1, Len(a))

C4_StageOrder ==
    /\ IsPrefix(SelectSeq(trace, IsListed), ExpectedOrder)
    /\ pc = "built" => SelectSeq(trace, IsListed) = ExpectedOrder
    /\ BuildFits => err = "none"

C4_Witness ==
    /\ pc = "built"
    /\ use_token_learner
    /\ NUM_LAYERS >= 3
    /\ SelectSeq(trace, IsListed) = ExpectedOrder

\* C5: when the image size is divisible by the patch size, the patch encoder
\* (strided projection, then flatten) yields exactly (H/P)*(W/P) tokens of width
\* PROJECTION_DIM, and that count is NUM_PATCHES, the size of the positional table.
C5_PatchCount ==
    (IMAGE_SIZE % PATCH_SIZE = 0) =>
        /\ err = "none"
        /\ pc = "projected" =>
              shape = <<IMAGE_SIZE \div PATCH_SIZE, IMAGE_SIZE \div PATCH_SIZE, PROJECTION_DIM>>
        /\ pc = "flattened" =>
              /\ shape = <<(IMAGE_SIZE \div PATCH_SIZE) * (IMAGE_SIZE \div PATCH_SIZE),
                           PROJECTION_DIM>>
              /\ shape[1] = NUM_PATCHES

C5_Witness ==
    /\ pc = "flattened"
    /\ IMAGE_SIZE % PATCH_SIZE = 0
    /\ PATCH_SIZE >= 2
    /\ IMAGE_SIZE \div PATCH_SIZE >= 2
    /\ shape[1] = NUM_PATCHES

EntryLength == IF blocks = <<>> THEN shape[1] ELSE blocks[1].in[1]

C7_NonSquareFailsAtBuild ==
    (use_token_learner /\ ~IsSquare(EntryLength)) =>
        /\ steps = 0
        /\ pc \in {"loop", "to_grid", "error"}
        /\ pc = "loop" => i <= NUM_LAYERS \div 2
        /\ pc = "error" => err = "to_grid"
        /\ reducedAt = <<>>
        /\ grids = 0

C7_Witness ==
    /\ use_token_learner
    /\ ~IsSquare(EntryLength)
    /\ pc = "error"
    /\ err = "to_grid"
    /\ blocks # <<>>
    /\ steps = 0

\* C8: a transformer block returns a tensor of the shape it was given, for every
\* sequence (n, PROJECTION_DIM) with n >= 1, and never raises; so blocks stack on
\* sequences of the original length and of the reduced length alike.
C8_BlockKeepsShape ==
    /\ err # "transformer"
    /\ \A k \in 1..Len(blocks) :
          /\ blocks[k].out = blocks[k].in
          /\ Len(blocks[k].in) = 2
          /\ blocks[k].in[1] >= 1
          /\ blocks[k].in[2] = PROJECTION_DIM
    /\ (pc = "loop" /\ i < NUM_LAYERS) => transformer(shape) = shape

C8_Witness ==
    /\ pc = "built"
    /\ Len(blocks) = NUM_LAYERS
    /\ NUM_LAYERS >= 3
    /\ blocks[1].in[1] = 9
    /\ blocks[NUM_LAYERS].in[1] = 2
    /\ blocks[NUM_LAYERS].out = <<2, PROJECTION_DIM>>

\* C9: from the patch projection to the input of the pooling, the last axis of
\* every tensor between two layers has size PROJECTION_DIM, and no layer raises.
WidthStages == {"projected", "flattened", "positioned", "loop", "to_grid", "reduce", "normed"}

C9_WidthConstant ==
    /\ BuildFits => err = "none"
    /\ pc \in WidthStages => Last(shape) = PROJECTION_DIM
    /\ \A k \in 1..Len(blocks) :
          Last(blocks[k].in) = PROJECTION_DIM /\ Last(blocks[k].out) = PROJECTION_DIM

C9_Witness ==
    /\ pc = "normed"
    /\ use_token_learner
    /\ reducedAt # <<>>
    /\ PROJECTION_DIM = 2
    /\ NUM_TOKENS = 3
    /\ N = 4
    /\ shape = <<3, 2>>

\* C10: the product that token_learner pools takes its weights from the attention
\* maps, which are computed from the layer-normalized grid, and its values from
\* the grid as it was passed in, before the layer normalization.
C10_WeightsOriginalGrid ==
    /\ reducedAt # <<>> => (flow.values = "original" /\ flow.weights = "normalized")
    /\ reducedAt = <<>> => flow = NoFlow

C10_Witness ==
    /\ reducedAt # <<>>
    /\ pc = "built"
    /\ flow = [weights |-> "normalized", values |-> "original"]

\* --------------------------------------------------- properties of values
RECURSIVE WeightedSum(_, _, _)
WeightedSum(weights, values, d) ==
    IF weights = <<>> THEN 0
    ELSE Head(weights) * Head(values)[d] + WeightedSum(Tail(weights), Tail(values), d)

Positions == tensors.h * tensors.h

\* C11: the output of the token reducer is, for every token k and channel d, the
\* sum over the positions p of A[k][p] * grid[p][d] divided by the number h * w of
\* positions; the divisor is that number whatever the attention weights sum to.
C11_MeanOverPositions ==
    (pc = "tl_done") =>
        /\ Len(tensors.out) = tensors.k
        /\ \A k \in 1..tensors.k :
              /\ Len(tensors.out[k]) = tensors.c
              /\ \A d \in 1..tensors.c :
                    /\ tensors.out[k][d].den = Positions
                    /\ tensors.out[k][d].num =
                          WeightedSum(tensors.maps[k], tensors.grid, d)

C11_Witness ==
    /\ pc = "tl_done"
    /\ tensors.h >= 2
    /\ tensors.k >= 2
    /\ \E k \in 1..tensors.k :
          /\ Sum(tensors.maps[k]) # Positions * Scale
          /\ Sum(tensors.maps[k]) # Scale
          /\ Sum(tensors.maps[k]) > 0
          /\ \E p, q \in 1..Positions : tensors.maps[k][p] # tensors.maps[k][q]
          /\ tensors.out[k][1].num # 0
          /\ tensors.out[k][1].den # Sum(tensors.maps[k])

\* C12: every value of every attention map lies between 0 and 1 (Scale), for
\* every grid and every pre-activation; the sum of a map over the positions is
\* only bounded by 0 and h * w.
C12_MapsInUnitInterval ==
    (pc \in {"tl_maps", "tl_product", "tl_done"}) =>
        /\ Len(tensors.maps) = tensors.k
        /\ \A k \in 1..tensors.k :
              /\ Len(tensors.maps[k]) = Positions
              /\ \A p \in 1..Positions :
                    tensors.maps[k][p] >= 0 /\ tensors.maps[k][p] <= Scale
              /\ Sum(tensors.maps[k]) >= 0
              /\ Sum(tensors.maps[k]) <= Positions * Scale

C12_Witness ==
    /\ pc = "tl_maps"
    /\ tensors.h >= 2
    /\ tensors.k >= 3
    /\ \E a, b, c \in 1..tensors.k :
          /\ Sum(tensors.maps[a]) = 0
          /\ Sum(tensors.maps[b]) = Positions * Scale
          /\ Sum(tensors.maps[c]) > Scale
          /\ Sum(tensors.maps[c]) < Positions * Scale
          /\ \E p \in 1..Positions : tensors.maps[c][p] \notin {0, Scale}

\* C13: with the notebook's hyperparameters (48 x 48 x 3 images after the
\* augmentation, patches of 6, width 128, 4 blocks, 4 learned tokens, 10 classes)
\* the patch encoder gives 64 tokens of width 128, token_learner is applied at
\* layer index 2, blocks 0, 1 and 2 run on 64 tokens and block 3 on 4 tokens, and
\* the output has length 10.
C13_NotebookScenario ==
    (cfg = NotebookConfig) =>
        /\ err = "none"
        /\ (pc = "augmented") => shape = <<48, 48, 3>>
        /\ (pc \in {"flattened", "positioned"}) => shape = <<64, 128>>
        /\ \A k \in 1..Len(blocks) :
              /\ blocks[k].index = k - 1
              /\ (blocks[k].index <= 2) =>
                    (blocks[k].in = <<64, 128>> /\ blocks[k].out = <<64, 128>>)
              /\ (blocks[k].index = 3) =>
                    (blocks[k].in = <<4, 128>> /\ blocks[k].out = <<4, 128>>)
        /\ \A k \in 1..Len(reducedAt) : reducedAt[k] = 2
        /\ (pc = "reduce") => shape = <<8, 8, 128>>
        /\ (pc = "normed") => shape = <<4, 128>>
        /\ (pc \in {"classified", "built", "compiled", "fit"}) =>
              /\ shape = <<10>>
              /\ Len(blocks) = 4
              /\ reducedAt = <<2>>

C13_Witness ==
    /\ cfg = NotebookConfig
    /\ pc = "built"
    /\ Len(blocks) = 4
    /\ blocks[3].out = <<64, 128>>
    /\ blocks[4].in = <<4, 128>>
    /\ reducedAt = <<2>>
    /\ shape = <<10>>

\* C14: the positional table has NUM_PATCHES rows; position_embedding rejects
\* every sequence whose length is not NUM_PATCHES, so no such sequence gets a
\* result.
C14_MismatchRejected ==
    [][(pc = "flattened" /\ shape[1] # NUM_PATCHES) => pc' = "error"]_vars

\* ------------------------------------------- properties of run_experiment
EpochEnded == pc \in {"epoch_end", "fit_done"}

RestoredByLoad == pc = "fit_done" /\ pc' = "loaded" /\ run'.params = run.checkpoint.params

OptimizerUpdate ==
    /\ pc = "train" /\ pc' = "train"
    /\ steps' = steps + 1
    /\ run'.stepTrace = Append(run.stepTrace, "apply")

\* C15: after the end of every epoch e, the one checkpoint kept holds the
\* parameters of an epoch among 1..e whose validation accuracy is the largest of
\* the epochs 1..e; an epoch of lower accuracy never replaces it.
C15_BestCheckpoint ==
    EpochEnded =>
        /\ Len(run.valAcc) = run.epoch
        /\ run.checkpoint.epoch \in 1..run.epoch
        /\ run.checkpoint.acc = run.valAcc[run.checkpoint.epoch]
        /\ run.checkpoint.params = run.epochParams[run.checkpoint.epoch]
        /\ \A e \in 1..run.epoch : run.valAcc[e] <= run.checkpoint.acc

C15_Witness ==
    /\ pc = "fit_done"
    /\ run.epoch >= 2
    /\ run.valAcc[1] > run.valAcc[2]
    /\ run.checkpoint.epoch = 1
    /\ run.params # run.checkpoint.params

\* C16 as stated: the parameters change only in an optimizer update inside a
\* training step; every other action of run_experiment leaves them as they are.
C16_OnlyOptimizerUpdates ==
    [][run'.params # run.params => OptimizerUpdate]_vars

\* C16 amended: the parameters change only in an optimizer update inside a
\* training step and when model.load_weights restores the checkpoint after fit;
\* validation, the writing of a checkpoint and the test evaluation leave them as
\* they are.
C16_OnlyUpdatesAndRestore ==
    [][run'.params # run.params => (OptimizerUpdate \/ RestoredByLoad)]_vars

C16_Witness ==
    /\ pc = "evaluated"
    /\ steps = Epochs * StepsPerEpoch
    /\ Len(run.epochParams) = Epochs
    /\ run.params # run.epochParams[Epochs]
    /\ run.params = run.checkpoint.params
    /\ run.tested = run.params

\* C17: the statements of every training step run in the order forward pass,
\* loss, gradients, optimizer update, metrics; a step has exactly one optimizer
\* update.
C17_StepOrder ==
    LET order == <<"forward", "loss", "gradients", "apply", "metrics">>
        applied == \E k \in 1..Len(run.stepTrace) : run.stepTrace[k] = "apply"
        underWay == run.phase # "idle"
    IN /\ IsPrefix(run.stepTrace, order)
       /\ (pc = "train" /\ ~underWay /\ run.step > 0) => run.stepTrace = order
       /\ (pc = "train") =>
             steps = (run.epoch - 1) * StepsPerEpoch + run.step
                     + (IF underWay /\ applied THEN 1 ELSE 0)

C17_Witness ==
    /\ pc = "train"
    /\ run.epoch = 2
    /\ run.step = StepsPerEpoch
    /\ run.phase = "idle"
    /\ run.stepTrace = <<"forward", "loss", "gradients", "apply", "metrics">>
    /\ steps = 2 * StepsPerEpoch

\* C18 as stated: a failure to write the checkpoint does not stop the training.
C18_WriteFailureNotFatal ==
    run.writeFailed => pc # "error"

\* C18 amended: a failure to write the checkpoint at the end of an epoch raises
\* out of model.fit: the run stops there, no later epoch is trained, the weights
\* are not reloaded and the test evaluation does not run; the file on disk is the
\* one last written successfully, if any.
C18_WriteFailureStopsRun ==
    run.writeFailed =>
        /\ pc = "error"
        /\ err = "checkpoint_write"
        /\ Len(run.valAcc) = run.epoch
        /\ steps = run.epoch * StepsPerEpoch
        /\ run.params = steps
        /\ run.tested = -1
        /\ \/ run.checkpoint = NoCheckpoint
           \/ /\ run.checkpoint.epoch \in 1..(run.epoch - 1)
              /\ run.checkpoint.params = run.epochParams[run.checkpoint.epoch]

C18_Witness ==
    /\ run.writeFailed
    /\ pc = "error"
    /\ run.epoch = 1
    /\ run.epoch < Epochs
    /\ run.checkpoint = NoCheckpoint

\* C19: once a training step has had a non-finite loss, nothing is rolled back,
\* skipped, restarted or stopped: the step's update is applied, and every batch
\* of every epoch is still trained on before fit returns.
C19_NoRecovery ==
    run.nonFinite =>
        /\ (pc = "train") => run.params = steps
        /\ (pc \in {"train", "validated"}) =>
              steps >= (run.epoch - 1) * StepsPerEpoch + run.step
        /\ (pc \in {"fit_done", "loaded", "evaluated"}) =>
              /\ steps = Epochs * StepsPerEpoch
              /\ run.epoch = Epochs
              /\ Len(run.valAcc) = Epochs
        /\ (pc = "error") => err = "checkpoint_write"

C19_Witness ==
    /\ run.nonFinite
    /\ run.loss = "finite"
    /\ pc = "evaluated"
    /\ steps = Epochs * StepsPerEpoch
    /\ Len(run.valAcc) = Epochs

Distance(a, b) == IF a >= b THEN a - b ELSE b - a

\* C21: for a batch of B inputs the output has B rows of NUM_CLASSES entries;
\* with finite parameters every entry is a probability between 0 and 1
\* (Precision) and every row sums to 1 up to the rounding of its entries.
C21_OutputIsDistribution ==
    (pc = "head_done") =>
        /\ shape = <<NUM_CLASSES>>
        /\ probs.finite =>
              /\ Len(probs.out) = Len(probs.logits)
              /\ \A r \in 1..Len(probs.out) :
                    /\ Len(probs.out[r]) = NUM_CLASSES
                    /\ \A j \in 1..NUM_CLASSES :
                          probs.out[r][j] >= 0 /\ probs.out[r][j] <= Precision
                    /\ 2 * Distance(Sum(probs.out[r]), Precision) <= NUM_CLASSES

C21_Witness ==
    /\ pc = "head_done"
    /\ probs.finite
    /\ Len(probs.out) = 2
    /\ probs.out[1] # probs.out[2]
    /\ \E j, k \in 1..NUM_CLASSES :
          /\ probs.out[1][j] > probs.out[1][k]
          /\ probs.out[1][k] > 0
    /\ Sum(probs.out[1]) # Precision

\* ------------------------------------------- properties of the Distiller
\* C22: whatever train_step and test_step calls have been made, the teacher's
\* weights are the ones it had before the first call, gradients have been taken
\* with respect to the student's variables only, and only train_step has
\* changed the student.
C22_TeacherFrozen ==
    /\ distiller.teacher = NoDistiller.teacher
    /\ distiller.wrt \subseteq {"student"}
    /\ distiller.student <= distiller.calls
    /\ (distiller.calls = 1 /\ distiller.last.kind = "test") =>
          distiller.student = NoDistiller.student

C22_Witness ==
    /\ distiller.calls = 2
    /\ distiller.last.kind = "test"
    /\ distiller.student = 1
    /\ distiller.wrt = {"student"}
    /\ distiller.teacher = 0

\* C23: the loss of a training step is alpha * student_loss + (1 - alpha) *
\* distillation_loss, the distillation loss being distillation_loss_fn of the
\* teacher's and the student's predictions, both softened with the temperature
\* T, times T^2; with alpha = 1 the loss is the same for every teacher
\* prediction, with alpha = 0 for every label.
C23_DistillationLoss ==
    (distiller.last.kind = "train") =>
        LET alpha == distiller.alpha
            T == distiller.temperature
            x == distiller.last.x
            y == distiller.last.y
            sp == student(distiller.student - 1, x)
            tp == teacher(distiller.teacher, x)
            SL == student_loss_fn(y, sp)
            DL == distillation_loss_fn(Softened(tp, T), Softened(sp, T)) * T * T
        IN /\ distiller.last.student_loss = SL
           /\ distiller.last.distillation_loss = DL
           /\ distiller.last.loss = alpha * SL + (AlphaUnit - alpha) * DL
           /\ (alpha = AlphaUnit) =>
                 \A weights \in 0..MaxCalls, other \in Inputs :
                    train_step_loss(alpha, T, y, sp, teacher(weights, other)).loss
                       = distiller.last.loss
           /\ (alpha = 0) =>
                 \A label \in 1..NUM_CLASSES :
                    train_step_loss(alpha, T, label, sp, tp).loss = distiller.last.loss

C23_Witness ==
    /\ distiller.last.kind = "train"
    /\ distiller.alpha = 1
    /\ distiller.temperature = 3
    /\ distiller.last.student_loss > 0
    /\ distiller.last.distillation_loss > 0
    /\ distiller.last.loss
          = distiller.last.student_loss + (AlphaUnit - 1) * distiller.last.distillation_loss
    /\ distiller.last.loss # AlphaUnit * distiller.last.student_loss
    /\ distiller.last.loss # AlphaUnit * distiller.last.distillation_loss

\* C24: once create_classifier(encoder, trainable=False) has compiled the
\* classifier, every layer of the encoder is non-trainable; through every
\* training step of the classifier the encoder's weights and statistics are
\* those at the end of the pre-training, the projection head is untouched,
\* and the two Dense layers on top have been updated at every step.
C24_EncoderFrozen ==
    (pc \in {"sc_compiled", "sc_evaluated"} /\ ~classifier.arg) =>
        /\ classifier.compiled
        /\ \A l \in 1..Len(EncoderLayers) : ~classifier.trainable[l]
        /\ classifier.weights = classifier.pretrained.weights
        /\ classifier.statistics = classifier.pretrained.statistics
        /\ classifier.dense_2 = classifier.pretraining
        /\ classifier.head = <<classifier.steps, classifier.steps>>

C24_Witness ==
    /\ pc = "sc_evaluated"
    /\ ~classifier.arg
    /\ classifier.steps = MaxEpochs * MaxSteps
    /\ classifier.pretraining >= 1
    /\ \E l \in 1..Len(EncoderLayers) : classifier.weights[l] >= 1

\* C25: once get_gradients has been called it has returned as many gradients
\* as the optimizer computed, in their order; one of rank 0 or 1 is returned
\* as it was, one of rank above 1 is returned minus its mean over all axes
\* but the last, so that its entries at each index of the last axis sum to 0.
C25_Centralized ==
    pc \in {"gc_returned", "gc_raised"} =>
        /\ grads.err = "none"
        /\ Len(grads.out) = Len(grads.gradients)
        /\ \A k \in 1..Len(grads.out) :
              LET grad == grads.gradients[k]
                  out  == grads.out[k]
              IN IF grad.rank <= 1 THEN out = grad
                 ELSE /\ out = Centralized(grad)
                      /\ \A c \in 1..Len(out.values[1]) :
                            Sum([r \in 1..Len(out.values) |-> out.values[r][c]]) = 0

\* C26: with the reducer enabled, whether K is smaller than, equal to or
\* larger than the number of patches, and whether or not K is a square, no
\* layer raises; the blocks up to the reduction take N tokens, the reducer
\* leaves K tokens (more than before when K > N), every later block takes and
\* returns K tokens, and the sequence is not turned into a grid again.
C26_AnyNumberOfTokens ==
    (use_token_learner /\ BuildFits) =>
        /\ err = "none"
        /\ pc \in AfterLoop => Len(reducedAt) = 1
        /\ reducedAt # <<>> =>
              /\ pc \notin {"to_grid", "reduce"}
              /\ grids = 1
              /\ pc = "loop" => shape = <<K, D>>
              /\ \A k \in 1..Len(blocks) :
                    IF blocks[k].index <= reducedAt[1]
                    THEN blocks[k].out = <<N, D>>
                    ELSE blocks[k].in = <<K, D>> /\ blocks[k].out = <<K, D>>

C26_Witness ==
    /\ use_token_learner
    /\ pc = "built"
    /\ K > N
    /\ ~IsSquare(K)
    /\ Len(blocks) = NUM_LAYERS
    /\ NUM_LAYERS >= 2
    /\ blocks[1].in[1] = N
    /\ blocks[NUM_LAYERS].in[1] = K
    /\ blocks[NUM_LAYERS].in[1] > blocks[1].in[1]

\* C27: whenever the image is at least one patch wide, divisible by the patch
\* size or not, the sequence that reaches the reshape has NUM_PATCHES =
\* (IMAGE_SIZE // PATCH_SIZE)^2 tokens, h = int(sqrt(N)) is IMAGE_SIZE //
\* PATCH_SIZE with h * h = N, and the grid handed to the reducer is the
\* (h, h, D) grid of the patch projection, with as many elements as the
\* sequence had.
C27_GridRestored ==
    BuildFits =>
        /\ err = "none"
        /\ pc = "projected" =>
              shape = <<IMAGE_SIZE \div PATCH_SIZE, IMAGE_SIZE \div PATCH_SIZE, D>>
        /\ pc = "to_grid" =>
              /\ shape = <<NUM_PATCHES, D>>
              /\ IsSquare(shape[1])
              /\ IntSqrt(shape[1]) = IMAGE_SIZE \div PATCH_SIZE
              /\ IntSqrt(shape[1]) * IntSqrt(shape[1]) = shape[1]
        /\ pc = "reduce" =>
              /\ shape = <<IMAGE_SIZE \div PATCH_SIZE, IMAGE_SIZE \div PATCH_SIZE, D>>
              /\ Product(shape) = Product(blocks[Len(blocks)].out)

C27_Witness ==
    /\ pc = "reduce"
    /\ IMAGE_SIZE % PATCH_SIZE # 0
    /\ IMAGE_SIZE \div PATCH_SIZE >= 2
    /\ shape[1] = IMAGE_SIZE \div PATCH_SIZE
    /\ grids = 1

\* C28: the test evaluation runs on the parameters of the checkpoint, which
\* are those of an epoch of the largest validation accuracy, whatever the
\* parameters at the end of the last epoch were; the checkpoint is loaded
\* when every epoch has ended and before the evaluation.
C28_TestOnBest ==
    /\ pc \in {"loaded", "evaluated"} =>
          /\ run.epoch = Epochs
          /\ Len(run.epochParams) = Epochs
          /\ Len(run.valAcc) = Epochs
          /\ steps = Epochs * StepsPerEpoch
    /\ pc = "loaded" =>
          /\ run.tested = NoRun.tested
          /\ run.params = run.checkpoint.params
    /\ pc = "evaluated" =>
          /\ run.tested = run.checkpoint.params
          /\ run.tested = run.epochParams[run.checkpoint.epoch]
          /\ \A e \in 1..Epochs : run.valAcc[e] <= run.valAcc[run.checkpoint.epoch]
    /\ pc \notin {"loaded", "evaluated"} => run.tested = NoRun.tested

C28_Witness ==
    /\ pc = "evaluated"
    /\ run.checkpoint.epoch < Epochs
    /\ run.valAcc[Epochs] < run.checkpoint.acc
    /\ run.tested = run.epochParams[run.checkpoint.epoch]
    /\ run.tested # run.epochParams[Epochs]

\* C29: without the reducer the sequence is never turned into a grid and
\* never reduced; every transformer block takes and returns N tokens, all
\* NUM_LAYERS blocks are applied, and the final layer-norm takes N tokens.
C29_NoReducer ==
    (~use_token_learner /\ BuildFits) =>
        /\ err = "none"
        /\ grids = 0
        /\ reducedAt = <<>>
        /\ flow = NoFlow
        /\ pc \notin {"to_grid", "reduce"}
        /\ \A k \in 1..Len(trace) : trace[k].stage \notin {"to_grid", "token_learner"}
        /\ \A k \in 1..Len(blocks) :
              blocks[k].index = k - 1 /\ blocks[k].in = <<N, D>> /\ blocks[k].out = <<N, D>>
        /\ pc = "loop" => shape = <<N, D>>
        /\ pc = "normed" => shape = <<N, D>>
        /\ pc \in AfterLoop => Len(blocks) = NUM_LAYERS

C29_Witness ==
    /\ ~use_token_learner
    /\ pc = "built"
    /\ NUM_LAYERS = MaxLayers
    /\ Len(blocks) = NUM_LAYERS
    /\ N > K
    /\ blocks[NUM_LAYERS].out[1] = N

\* The events since the most recent on_train_begin.
RECURSIVE SinceTrainBegin(_)
SinceTrainBegin(events) ==
    IF events = <<>> THEN <<>>
    ELSE IF events[Len(events)].name = "on_train_begin" THEN <<>>
    ELSE Append(SinceTrainBegin(SubSeq(events, 1, Len(events) - 1)), events[Len(events)])

\* The durations of the epochs ended in a sequence of events, each measured
\* from the latest on_epoch_begin before its end (start is the time of the
\* latest on_epoch_begin before the sequence).
RECURSIVE Durations(_, _)
Durations(events, start) ==
    IF events = <<>> THEN <<>>
    ELSE LET e == Head(events)
         IN IF e.name = "on_epoch_begin" THEN Durations(Tail(events), e.time)
            ELSE IF e.name = "on_epoch_end"
                 THEN <<e.time - start>> \o Durations(Tail(events), start)
            ELSE Durations(Tail(events), start)

\* The time of the latest on_epoch_begin in a sequence of events.
RECURSIVE LatestBegin(_)
LatestBegin(events) ==
    IF events = <<>> THEN 0
    ELSE IF events[Len(events)].name = "on_epoch_begin" THEN events[Len(events)].time
    ELSE LatestBegin(SubSeq(events, 1, Len(events) - 1))

HasTrainBegin(events) == \E k \in 1..Len(events) : events[k].name = "on_train_begin"

EndsSince(events) ==
    Cardinality({k \in 1..Len(events) : events[k].name = "on_epoch_end"})

\* C30: with an on_train_begin received and every on_epoch_end preceded by
\* its on_epoch_begin, times has one entry for each on_epoch_end since the
\* most recent on_train_begin, each the time from the latest on_epoch_begin
\* before that end to the end.
C30_TimesState ==
    (HasTrainBegin(timer.events) /\ timer.err = "none") =>
        LET since == SinceTrainBegin(timer.events)
            before == SubSeq(timer.events, 1, Len(timer.events) - Len(since))
        IN /\ timer.has_times
           /\ Len(timer.times) = EndsSince(since)
           /\ timer.times = Durations(since, LatestBegin(before))

\* C30, the events one by one: on_train_begin empties the list,
\* on_epoch_begin leaves it as it is, on_epoch_end makes it one entry longer.
C30_TimesStep ==
    (Len(timer'.events) = Len(timer.events) + 1 /\ timer'.err = "none") =>
        LET event == timer'.events[Len(timer'.events)]
        IN CASE event.name = "on_train_begin" -> timer'.times = <<>>
             [] event.name = "on_epoch_begin" -> timer'.times = timer.times
             [] event.name = "on_epoch_end" ->
                   /\ Len(timer'.times) = Len(timer.times) + 1
                   /\ SubSeq(timer'.times, 1, Len(timer.times)) = timer.times
                   /\ timer'.times[Len(timer'.times)]
                         = event.time - LatestBegin(timer.events)

C30_TimesList == []C30_TimesState /\ [][C30_TimesStep]_vars

C30_Witness ==
    /\ timer.err = "none"
    /\ Cardinality({k \in 1..Len(timer.events) :
                       timer.events[k].name = "on_train_begin"}) >= 2
    /\ Cardinality({k \in 1..Len(timer.events) :
                       timer.events[k].name = "on_epoch_begin"}) >= 2
    /\ Len(timer.times) = 1
    /\ timer.times[1] >= 1

====
